---- MODULE Spec2Model ----
(***************************************************************************)
(* The hierarchical console stopwatch (src/unnamed/part_000): the session  *)
(* timer, the array of subgoal nodes with the active cursor, the command   *)
(* switch of main() and the Org-mode export of save_log().                 *)
(*                                                                         *)
(* Durations (the doubles elapsed, cur, start, end of the source, in        *)
(* seconds) are kept as whole milliseconds, and the performance counter    *)
(* ticks once per millisecond, so the arithmetic of the source on them is  *)
(* integer arithmetic here.                                                *)
(*                                                                         *)
(* The console is a grid of rows (screen); each row holds what was printed *)
(* on it last, the prompts and the echo of the typed lines left out.       *)
(*                                                                         *)
(* The log file is an external, append-only sink: the state holds what the *)
(* current pass of the loop handed to it (written), not the file.  The     *)
(* calendar fields of the session entry (localtime of logStart and of the  *)
(* export time) are not part of the state: the session entry carries the   *)
(* goal name only.                                                         *)
(***************************************************************************)
EXTENDS Integers, Sequences, FiniteSets, TLC

\* Capacity of the node array.  The source sets 50 (part_000 line 36); the
\* model runs with a small array so that the full array is reached.
MAX_SPLITS == 2

\* Largest reading of the performance counter.
MaxNow == 1

\* Lines the user can type at the "Enter main goal" prompt (may be empty).
Goals == {"", "Report"}

\* Lines the user can type at the subgoal name prompts.
Names == {"Draft"}

\* QueryPerformanceFrequency: counter ticks per second.  Durations are kept in
\* whole milliseconds, so one tick is one millisecond.
freq == 1000

VARIABLES
    running,      \* static int running
    elapsed,      \* static double elapsed
    startCount,   \* static LARGE_INTEGER startCount
    splits,       \* static Split splits[MAX_SPLITS]
    splitCount,   \* static int splitCount
    activeSplit,  \* static int activeSplit (-1 = none)
    mainGoal,     \* static char mainGoal[]
    screen,       \* the console: what each row shows
    written,      \* what this pass appended to FILE_PATH, one record per heading
    now,          \* the performance counter (QueryPerformanceCounter)
    c,            \* char c of main: the key read last ("" before any key)
    cur,          \* double cur: the session-elapsed value computed last since the
                  \* last start, stop or reset (-1 when none was)
    pc,           \* position in the loop of main: "poll", "draw" or "done"
    scenario,     \* progress through start, open, open nested, close, close, stop,
                  \* export
    need_redraw,  \* static int need_redraw of the flat timer (stopwatch.c)
    errout,       \* what this pass printed on stderr ("" when nothing)
    fmt_t,        \* double t: the argument of a call of format_time taken alone
    fmt_buf       \* char* buf: what that call stored (<<>> before the call)

tree == <<splits, splitCount, activeSplit>>
session == <<running, elapsed, startCount, mainGoal>>
vars == <<running, elapsed, startCount, splits, splitCount, activeSplit,
          mainGoal, screen, written, now, c, cur, pc, scenario,
          need_redraw, errout, fmt_t, fmt_buf>>

\* The state that belongs to the flat timer alone or to format_time taken alone.
\* The hierarchical timer has no dirty flag and prints nothing on stderr.
aux == <<need_redraw, errout, fmt_t, fmt_buf>>
formatCall == <<fmt_t, fmt_buf>>

Slots == 0 .. (MAX_SPLITS - 1)

\* A zero-initialised Split (static storage).
ZeroSplit == [name |-> "", start |-> 0, end |-> 0, parent |-> 0, level |-> 0]

\* double cur = elapsed + (double)(now.QuadPart - startCount.QuadPart)/freq.QuadPart
\* (computed whether or not the session is running).
Cur == elapsed + (((now - startCount) * 1000) \div freq)

\* The clock advances on its own, at any point of the loop.
Advance ==
    /\ now < MaxNow
    /\ now' = now + 1
    /\ UNCHANGED <<running, elapsed, startCount, splits, splitCount, activeSplit,
                   mainGoal, screen, written, c, cur, pc, scenario, aux>>

\* C integer division and remainder (truncation toward zero).
CDiv(a, b) == IF a >= 0 THEN a \div b ELSE -((-a) \div b)
CMod(a, b) == a - b * CDiv(a, b)

\* format_time(t, buf): the twelve characters stored in buf, as character
\* codes ('0' is 48, ':' is 58, '.' is 46), for t given in milliseconds.
FormatTime(t) ==
    LET ms       == CMod(t, 1000)
        totalSec == CDiv(t, 1000)
        s        == CMod(totalSec, 60)
        m        == CMod(CDiv(totalSec, 60), 60)
        h        == CDiv(totalSec, 3600)
    IN  << 48 + CDiv(h, 10), 48 + CMod(h, 10), 58,
           48 + CDiv(m, 10), 48 + CMod(m, 10), 58,
           48 + CDiv(s, 10), 48 + CMod(s, 10), 46,
           48 + CMod(CDiv(ms, 100), 10), 48 + CMod(CDiv(ms, 10), 10),
           48 + CMod(ms, 10) >>

\* The rows of the console that the frame can reach.
Rows == 0 .. (MAX_SPLITS + 5)

\* The text "--:--:--.---" shown for a time that is not there, as character codes.
Placeholder == <<45, 45, 58, 45, 45, 58, 45, 45, 46, 45, 45, 45>>

\* A row of the console: the kind of line, and for the line of a node its
\* number, its indentation and the three time fields.
Line(kind, text, index, indent, start, end, dur) ==
    [kind |-> kind, text |-> text, index |-> index, indent |-> indent,
     start |-> start, end |-> end, dur |-> dur]

BlankLine == Line("blank", "", 0, 0, <<>>, <<>>, <<>>)

\* The line draw_static() prints for the node sp, the i-th of the array.
StaticNodeLine(sp, i) ==
    IF sp.end >= 0
      THEN Line("node", sp.name, i + 1, sp.level * 2,
                FormatTime(sp.start), FormatTime(sp.end), FormatTime(sp.end - sp.start))
      ELSE Line("node", sp.name, i + 1, sp.level * 2,
                Placeholder, Placeholder, Placeholder)

\* The frame draw_static() prints after clearing the screen, for the goal,
\* the node count and the node array it finds.
StaticFrame(goal, count, nodes) ==
    [r \in Rows |->
        IF r = 0 THEN Line("title", "=== Enhanced Stopwatch ===", 0, 0, <<>>, <<>>, <<>>)
        ELSE IF r = 1
          THEN Line("goal", IF goal # "" THEN goal ELSE "(none)", 0, 0, <<>>, <<>>, <<>>)
        ELSE IF r = 2 THEN Line("time", "", 0, 0, <<>>, <<>>, FormatTime(0))
        ELSE IF r = 3 THEN Line("count", "", count, 0, <<>>, <<>>, <<>>)
        ELSE IF r < 4 + count THEN StaticNodeLine(nodes[r - 4], r - 4)
        ELSE IF r = 5 + count THEN Line("controls", "", 0, 0, <<>>, <<>>, <<>>)
        ELSE BlankLine]

\* draw_static(), called once the handler has updated the state.
DrawStatic ==
    \E goal \in {mainGoal'}, count \in {splitCount'}, nodes \in {splits'} :
        screen' = StaticFrame(goal, count, nodes)

\* The state when the loop of main is entered.
Init ==
    /\ running = FALSE
    /\ elapsed = 0
    /\ startCount = 0
    /\ splits = [i \in Slots |-> ZeroSplit]
    /\ splitCount = 0
    /\ activeSplit = -1
    /\ mainGoal = ""
    /\ screen = StaticFrame(mainGoal, splitCount, splits)
    /\ written = <<>>
    /\ now = 0
    /\ c = ""
    /\ cur = -1
    /\ pc = "poll"
    /\ scenario = 0
    /\ need_redraw = 0
    /\ errout = ""
    /\ fmt_t = 0
    /\ fmt_buf = <<>>

\* A pass through the key handler: _kbhit() is true, the key is read, and
\* control reaches the redraw after the switch.
Key(k) ==
    /\ pc = "poll"
    /\ c' = k
    /\ pc' = "draw"
    /\ UNCHANGED <<now, aux>>

\* Progress of the command sequence start, open at top level, open nested,
\* close, close, stop, export: the number of its commands that the commands
\* since the last session start spell out, 0 once any other command was given.
ScenarioStep(k) ==
    IF k = "s" /\ ~running THEN 1
    ELSE IF scenario = 1 /\ k = "g" /\ splitCount < MAX_SPLITS THEN 2
    ELSE IF scenario = 2 /\ k \in {"g", "n"} /\ splitCount < MAX_SPLITS THEN 3
    ELSE IF scenario = 3 /\ k = "h" THEN 4
    ELSE IF scenario = 4 /\ k = "h" THEN 5
    ELSE IF scenario = 5 /\ k = "s" THEN 6
    ELSE IF scenario = 6 /\ k = "t" THEN 7
    ELSE 0

\* Faulty variant of StartSession: the nodes and the cursor of the previous
\* session are kept.
StartSessionKeepTree(goal) ==
    /\ mainGoal' = goal
    /\ startCount' = now
    /\ elapsed' = 0
    /\ running' = TRUE
    /\ UNCHANGED <<splits, splitCount, activeSplit>>

\* case 's', session not running: prompt for the goal and start afresh.
StartSession(goal) ==
    /\ mainGoal' = goal
    /\ startCount' = now
    /\ elapsed' = 0
    /\ splitCount' = 0
    /\ activeSplit' = -1
    /\ running' = TRUE
    /\ UNCHANGED splits

\* Faulty variant of StopSession: the active node is stopped with the session.
StopSessionClosing ==
    /\ elapsed' = Cur
    /\ running' = FALSE
    /\ splits' = IF activeSplit >= 0
                   THEN [splits EXCEPT ![activeSplit].end = Cur]
                   ELSE splits
    /\ activeSplit' = -1
    /\ UNCHANGED <<startCount, mainGoal, splitCount>>

\* case 's', session running: elapsed = cur; running = 0.
StopSession ==
    /\ elapsed' = Cur
    /\ running' = FALSE
    /\ UNCHANGED <<startCount, mainGoal, splits, splitCount, activeSplit>>

KeyS(goal) ==
    /\ Key("s")
    /\ IF running THEN StopSession ELSE StartSession(goal)
    /\ DrawStatic
    /\ cur' = -1
    /\ scenario' = ScenarioStep("s")
    /\ UNCHANGED written

\* Faulty variant of ResetSession: the goal name is kept.
ResetSessionKeepGoal ==
    /\ running' = FALSE
    /\ elapsed' = 0
    /\ splitCount' = 0
    /\ activeSplit' = -1
    /\ UNCHANGED <<mainGoal, startCount, splits>>

\* case 'r'
ResetSession ==
    /\ running' = FALSE
    /\ elapsed' = 0
    /\ splitCount' = 0
    /\ mainGoal' = ""
    /\ activeSplit' = -1
    /\ UNCHANGED <<startCount, splits>>

KeyR ==
    /\ Key("r")
    /\ ResetSession
    /\ DrawStatic
    /\ cur' = -1
    /\ scenario' = ScenarioStep("r")
    /\ UNCHANGED written

\* Faulty variant of NewSplitG: the node is put at the top level whatever
\* node is active.
NewSplitGTopLevel(name) ==
    [name   |-> name,
     start  |-> Cur,
     end    |-> -1,
     parent |-> activeSplit,
     level  |-> 0]

\* The node written into splits[splitCount] by case 'g'.
NewSplitG(name) ==
    [name   |-> name,
     start  |-> Cur,
     end    |-> -1,
     parent |-> activeSplit,
     level  |-> IF activeSplit >= 0 THEN splits[activeSplit].level + 1 ELSE 0]

\* Faulty variant of NewSplitN: the node starts at the accumulated elapsed
\* time, the current run left out.
NewSplitNFromElapsed(name) ==
    [name   |-> name,
     start  |-> elapsed,
     end    |-> -1,
     parent |-> activeSplit,
     level  |-> splits[activeSplit].level + 1]

\* The node written into splits[splitCount] by case 'n'.
NewSplitN(name) ==
    [name   |-> name,
     start  |-> Cur,
     end    |-> -1,
     parent |-> activeSplit,
     level  |-> splits[activeSplit].level + 1]

\* activeSplit = splitCount++ after the node was filled in.
OpenSplit(node) ==
    /\ splits' = [splits EXCEPT ![splitCount] = node]
    /\ activeSplit' = splitCount
    /\ splitCount' = splitCount + 1

\* Faulty variant of KeyG: the array is not tested for room; at capacity the
\* new node takes the last slot over.
KeyGOverwriteLast(name) ==
    /\ Key("g")
    /\ UNCHANGED <<session, written>>
    /\ IF running
         THEN /\ IF splitCount < MAX_SPLITS
                   THEN OpenSplit(NewSplitG(name))
                   ELSE /\ splits' = [splits EXCEPT ![MAX_SPLITS - 1] = NewSplitG(name)]
                        /\ activeSplit' = MAX_SPLITS - 1
                        /\ UNCHANGED splitCount
              /\ DrawStatic
         ELSE UNCHANGED <<tree, screen>>
    /\ cur' = Cur
    /\ scenario' = ScenarioStep("g")

\* Faulty variant of KeyG: the running flag is not tested.
KeyGWhileStopped(name) ==
    /\ Key("g")
    /\ UNCHANGED <<session, written>>
    /\ IF splitCount < MAX_SPLITS
         THEN OpenSplit(NewSplitG(name)) /\ DrawStatic
         ELSE UNCHANGED <<tree, screen>>
    /\ cur' = Cur
    /\ scenario' = ScenarioStep("g")

\* case 'g'
KeyG(name) ==
    /\ Key("g")
    /\ UNCHANGED <<session, written>>
    /\ IF running /\ splitCount < MAX_SPLITS
         THEN OpenSplit(NewSplitG(name)) /\ DrawStatic
         ELSE UNCHANGED <<tree, screen>>
    /\ cur' = Cur
    /\ scenario' = ScenarioStep("g")

\* case 'n'
KeyN(name) ==
    /\ Key("n")
    /\ UNCHANGED <<session, written>>
    /\ IF running /\ activeSplit >= 0 /\ splitCount < MAX_SPLITS
         THEN OpenSplit(NewSplitN(name)) /\ DrawStatic
         ELSE UNCHANGED <<tree, screen>>
    /\ cur' = Cur
    /\ scenario' = ScenarioStep("n")

\* Faulty variant of CloseActive: the cursor stays on the node just closed.
CloseActiveStay ==
    /\ splits' = [splits EXCEPT ![activeSplit].end = Cur]
    /\ UNCHANGED <<activeSplit, splitCount>>

\* Faulty variant of CloseActive: the cursor is cleared, as in the flat timer,
\* instead of moving to the parent.
CloseActiveFlat ==
    /\ splits' = [splits EXCEPT ![activeSplit].end = Cur]
    /\ activeSplit' = -1
    /\ UNCHANGED splitCount

\* Faulty variant of CloseActive: the cursor moves to the node before the one
\* closed in the array, not to its parent.
CloseActivePrev ==
    /\ splits' = [splits EXCEPT ![activeSplit].end = Cur]
    /\ activeSplit' = activeSplit - 1
    /\ UNCHANGED splitCount

\* case 'h' with a node active: stop current and move up one level.
CloseActive ==
    /\ splits' = [splits EXCEPT ![activeSplit].end = Cur]
    /\ activeSplit' = splits[activeSplit].parent
    /\ UNCHANGED splitCount

KeyH ==
    /\ Key("h")
    /\ UNCHANGED <<session, written>>
    /\ IF activeSplit >= 0
         THEN CloseActive /\ DrawStatic
         ELSE UNCHANGED <<tree, screen>>
    /\ cur' = Cur
    /\ scenario' = ScenarioStep("h")

\* Faulty variant of Ascend: the node being left is stopped as well.
AscendClosing ==
    /\ splits' = [splits EXCEPT ![activeSplit].end = Cur]
    /\ activeSplit' = splits[activeSplit].parent
    /\ UNCHANGED splitCount

\* case 'u' with a node active: move up without stopping.
Ascend ==
    /\ activeSplit' = splits[activeSplit].parent
    /\ UNCHANGED <<splits, splitCount>>

KeyU ==
    /\ Key("u")
    /\ UNCHANGED <<session, written>>
    /\ IF activeSplit >= 0
         THEN Ascend /\ DrawStatic
         ELSE UNCHANGED <<tree, screen>>
    /\ cur' = Cur
    /\ scenario' = ScenarioStep("u")

\* The main goal as the top-level heading.
SessionEntry == [stars |-> 1, name |-> mainGoal]

\* The heading and CLOCK line written for splits[i].
NodeEntry(i) ==
    [stars |-> splits[i].level + 2,
     name  |-> splits[i].name,
     start |-> FormatTime(splits[i].start),
     end   |-> FormatTime(splits[i].end),
     dur   |-> FormatTime(splits[i].end - splits[i].start)]

\* Faulty variant of NodeEntries: open nodes are written too.
RECURSIVE NodeEntriesAll(_)
NodeEntriesAll(i) ==
    IF i >= splitCount THEN <<>>
    ELSE <<NodeEntry(i)>> \o NodeEntriesAll(i + 1)

\* The loop over the subgoals from index i on: open nodes are skipped.
RECURSIVE NodeEntries(_)
NodeEntries(i) ==
    IF i >= splitCount THEN <<>>
    ELSE IF splits[i].end < 0 THEN NodeEntries(i + 1)
    ELSE <<NodeEntry(i)>> \o NodeEntries(i + 1)

\* save_log(), with ok the outcome of fopen.
SaveLog(ok) ==
    IF mainGoal = "" THEN UNCHANGED written
    ELSE IF ~ok THEN UNCHANGED written
    ELSE written' = <<SessionEntry>> \o NodeEntries(0)

\* Faulty variant of KeyT: the log is saved whether or not the session runs.
KeyTWhileRunning(ok) ==
    /\ Key("t")
    /\ IF mainGoal # "" THEN SaveLog(ok) ELSE UNCHANGED written
    /\ cur' = Cur
    /\ scenario' = ScenarioStep("t")
    /\ UNCHANGED <<session, tree, screen>>

\* case 't'
KeyT(ok) ==
    /\ Key("t")
    /\ IF ~running /\ mainGoal # "" THEN SaveLog(ok) ELSE UNCHANGED written
    /\ cur' = Cur
    /\ scenario' = ScenarioStep("t")
    /\ UNCHANGED <<session, tree, screen>>

\* case 'q': return 0.
KeyQ ==
    /\ pc = "poll"
    /\ c' = "q"
    /\ cur' = Cur
    /\ pc' = "done"
    /\ scenario' = ScenarioStep("q")
    /\ UNCHANGED <<session, tree, screen, written, now, aux>>

\* Any other key: the switch has no default.
KeyOther ==
    /\ Key("x")
    /\ cur' = Cur
    /\ scenario' = ScenarioStep("x")
    /\ UNCHANGED <<session, tree, screen, written>>

\* _kbhit() returns 0: no key is pending on this pass.
NoKey ==
    /\ pc = "poll"
    /\ pc' = "draw"
    /\ UNCHANGED <<session, tree, screen, written, now, c, cur, scenario, aux>>

\* The line draw_dynamic() prints for the active node.
ActiveLine ==
    Line("node", splits[activeSplit].name, activeSplit + 1,
         splits[activeSplit].level * 2, Placeholder, Placeholder,
         FormatTime(Cur - splits[activeSplit].start))

\* draw_dynamic(): recompute cur, print the time line on row 2 and, if a node
\* is active, its line on row 3 + activeSplit.
DrawDynamic ==
    /\ cur' = Cur
    /\ screen' =
          IF activeSplit >= 0
            THEN [screen EXCEPT ![2] = Line("time", "", 0, 0, <<>>, <<>>, FormatTime(Cur)),
                                ![3 + activeSplit] = ActiveLine]
            ELSE [screen EXCEPT ![2] = Line("time", "", 0, 0, <<>>, <<>>, FormatTime(Cur))]

\* if(running) draw_dynamic(); Sleep(30); and back to the top of the loop,
\* where the pass's key and its output to the sink are gone.
Draw ==
    /\ pc = "draw"
    /\ IF running THEN DrawDynamic ELSE UNCHANGED <<cur, screen>>
    /\ pc' = "poll"
    /\ c' = ""
    /\ written' = <<>>
    /\ UNCHANGED <<session, tree, now, scenario, aux>>

Next ==
    \/ Advance
    \/ \E goal \in Goals : KeyS(goal)
    \/ KeyR
    \/ \E name \in Names : KeyG(name)
    \/ \E name \in Names : KeyN(name)
    \/ KeyH
    \/ KeyU
    \/ \E ok \in BOOLEAN : KeyT(ok)
    \/ KeyQ
    \/ KeyOther
    \/ NoKey
    \/ Draw

Spec == Init /\ [][Next]_vars

TypeOK ==
    /\ running \in BOOLEAN
    /\ elapsed \in Nat
    /\ startCount \in 0 .. MaxNow
    /\ splitCount \in 0 .. MAX_SPLITS
    /\ activeSplit \in -1 .. (MAX_SPLITS - 1)
    /\ mainGoal \in Goals
    /\ now \in 0 .. MaxNow
    /\ pc \in {"poll", "draw", "done"}
    /\ scenario \in 0 .. 7

(***************************************************************************)
(* The flat timer (src/stopwatch.c): the same session timer with a list of *)
(* splits that have no parent, a dirty flag (need_redraw) in place of the  *)
(* redraw calls of the handlers, and perror on a log file that cannot be   *)
(* opened.  It runs on the same variables; its splits carry name, start    *)
(* and end only.                                                           *)
(***************************************************************************)

\* A zero-initialised Split of the flat timer (static storage).
FlatZeroSplit == [name |-> "", start |-> 0, end |-> 0]

\* double curr = elapsed + (double)(now.QuadPart - startCount.QuadPart) / freq.QuadPart
Curr == elapsed + (((now - startCount) * 1000) \div freq)

\* The decimal digits of n >= 0, as character codes.
RECURSIVE Digits(_)
Digits(n) == IF n < 10 THEN <<48 + n>> ELSE Digits(n \div 10) \o <<48 + (n % 10)>>

\* printf's %0wd: at least w characters, zero-padded, the sign first.
RECURSIVE PadZero(_, _)
PadZero(n, w) ==
    IF n < 0 THEN <<45>> \o PadZero(-n, w - 1)
    ELSE LET d == Digits(n)
         IN  IF Len(d) >= w THEN d ELSE [i \in 1 .. (w - Len(d)) |-> 48] \o d

\* format_time(t, buf) of the flat timer: what sprintf stores for
\* "%02d:%02d:%02d.%03d", as character codes, for t given in milliseconds.
FlatFormatTime(x) ==
    LET hrs  == CDiv(x, 3600 * 1000)
        mins == CMod(CDiv(CDiv(x, 1000), 60), 60)
        secs == CMod(CDiv(x, 1000), 60)
        ms   == x - 1000 * CDiv(x, 1000)
    IN  PadZero(hrs, 2) \o <<58>> \o PadZero(mins, 2) \o <<58>>
        \o PadZero(secs, 2) \o <<46>> \o PadZero(ms, 3)

\* The line draw_static_ui() prints for the split sp, the i-th of the array.
FlatStaticNodeLine(sp, i) ==
    IF sp.end >= 0
      THEN Line("node", sp.name, i + 1, 0, FlatFormatTime(sp.start),
                FlatFormatTime(sp.end), FlatFormatTime(sp.end - sp.start))
      ELSE Line("node", sp.name, i + 1, 0, Placeholder, Placeholder, Placeholder)

\* The frame draw_static_ui() prints after clearing the screen.
FlatStaticFrame(goal, count, nodes) ==
    [r \in Rows |->
        IF r = 0 THEN Line("title", "=== Enhanced Stopwatch ===", 0, 0, <<>>, <<>>, <<>>)
        ELSE IF r = 1
          THEN Line("goal", IF goal # "" THEN goal ELSE "(none)", 0, 0, <<>>, <<>>, <<>>)
        ELSE IF r = 2 THEN Line("time", "", 0, 0, <<>>, <<>>, FlatFormatTime(0))
        ELSE IF r = 3 THEN Line("count", "", count, 0, <<>>, <<>>, <<>>)
        ELSE IF r < 4 + count THEN FlatStaticNodeLine(nodes[r - 4], r - 4)
        ELSE IF r = 5 + count THEN Line("controls", "", 0, 0, <<>>, <<>>, <<>>)
        ELSE BlankLine]

\* draw_static_ui(), on the state the handler leaves: the frame is printed and
\* the dirty flag cleared.
DrawStaticUi ==
    /\ \E goal \in {mainGoal'}, count \in {splitCount'}, nodes \in {splits'} :
           screen' = FlatStaticFrame(goal, count, nodes)
    /\ need_redraw' = 0

\* if (need_redraw) draw_static_ui(); with flag the value the switch left in
\* need_redraw.
Redraw(flag) ==
    IF flag = 1 THEN DrawStaticUi
    ELSE /\ need_redraw' = flag
         /\ UNCHANGED screen

\* The static initialisers of the flat timer, before main has drawn anything.
FlatInit ==
    /\ running = FALSE
    /\ elapsed = 0
    /\ startCount = 0
    /\ splits = [i \in Slots |-> FlatZeroSplit]
    /\ splitCount = 0
    /\ activeSplit = -1
    /\ mainGoal = ""
    /\ need_redraw = 1
    /\ screen = [r \in Rows |-> BlankLine]
    /\ written = <<>>
    /\ errout = ""
    /\ now = 0
    /\ c = ""
    /\ cur = -1
    /\ pc = "start"
    /\ scenario = 0
    /\ fmt_t = 0
    /\ fmt_buf = <<>>

\* main before the loop: draw_static_ui().
FlatStartup ==
    /\ pc = "start"
    /\ pc' = "poll"
    /\ UNCHANGED <<session, tree, written, errout, now, c, cur, scenario, formatCall>>
    /\ DrawStaticUi

\* A pass of the flat timer through the key handler.
FlatKey(k) ==
    /\ pc = "poll"
    /\ c' = k
    /\ pc' = "draw"
    /\ UNCHANGED <<now, cur, scenario, formatCall>>

\* case 's' of the flat timer: the stop branch leaves need_redraw alone, the
\* start branch sets it.
FlatKeyS(goal) ==
    /\ FlatKey("s")
    /\ UNCHANGED <<written, errout>>
    /\ IF running
         THEN /\ elapsed' = Curr
              /\ running' = FALSE
              /\ UNCHANGED <<startCount, mainGoal, splits, splitCount, activeSplit>>
              /\ Redraw(need_redraw)
         ELSE /\ mainGoal' = goal
              /\ startCount' = now
              /\ elapsed' = 0
              /\ splitCount' = 0
              /\ activeSplit' = -1
              /\ running' = TRUE
              /\ UNCHANGED splits
              /\ Redraw(1)

\* case 'r' of the flat timer.
FlatKeyR ==
    /\ FlatKey("r")
    /\ UNCHANGED <<written, errout>>
    /\ running' = FALSE
    /\ elapsed' = 0
    /\ splitCount' = 0
    /\ mainGoal' = ""
    /\ activeSplit' = -1
    /\ UNCHANGED <<startCount, splits>>
    /\ Redraw(1)

\* case 'g' of the flat timer.
FlatKeyG(name) ==
    /\ FlatKey("g")
    /\ UNCHANGED <<session, written, errout>>
    /\ IF running /\ splitCount < MAX_SPLITS
         THEN /\ splits' = [splits EXCEPT ![splitCount] =
                               [name |-> name, start |-> Curr, end |-> -1]]
              /\ activeSplit' = splitCount
              /\ splitCount' = splitCount + 1
              /\ Redraw(1)
         ELSE /\ UNCHANGED tree
              /\ Redraw(need_redraw)

\* case 'h' of the flat timer: the split is stopped and no split is active.
FlatKeyH ==
    /\ FlatKey("h")
    /\ UNCHANGED <<session, written, errout>>
    /\ IF activeSplit >= 0
         THEN /\ splits' = [splits EXCEPT ![activeSplit].end = Curr]
              /\ activeSplit' = -1
              /\ UNCHANGED splitCount
              /\ Redraw(1)
         ELSE /\ UNCHANGED tree
              /\ Redraw(need_redraw)

\* The heading and CLOCK line save_log of the flat timer writes for splits[i].
FlatNodeEntry(i) ==
    [stars |-> 2,
     name  |-> splits[i].name,
     start |-> FlatFormatTime(splits[i].start),
     end   |-> FlatFormatTime(splits[i].end),
     dur   |-> FlatFormatTime(splits[i].end - splits[i].start)]

\* The loop over the splits from index i on: open splits are skipped.
RECURSIVE FlatNodeEntries(_)
FlatNodeEntries(i) ==
    IF i >= splitCount THEN <<>>
    ELSE IF splits[i].end < 0 THEN FlatNodeEntries(i + 1)
    ELSE <<FlatNodeEntry(i)>> \o FlatNodeEntries(i + 1)

\* save_log() of the flat timer, with ok the outcome of fopen, followed by the
\* redraw test of main: a failed fopen is reported with perror and changes
\* nothing, a successful save sets need_redraw.
FlatSaveLog(ok) ==
    IF ok
      THEN /\ written' = <<[stars |-> 1, name |-> mainGoal]>> \o FlatNodeEntries(0)
           /\ UNCHANGED errout
           /\ Redraw(1)
      ELSE /\ errout' = "Failed to open log file"
           /\ UNCHANGED written
           /\ Redraw(need_redraw)

\* case 't' of the flat timer.
FlatKeyT(ok) ==
    /\ FlatKey("t")
    /\ UNCHANGED <<session, tree>>
    /\ IF ~running /\ mainGoal # ""
         THEN FlatSaveLog(ok)
         ELSE /\ UNCHANGED <<written, errout>>
              /\ Redraw(need_redraw)

\* case 'q' of the flat timer: return 0.
FlatKeyQ ==
    /\ pc = "poll"
    /\ c' = "q"
    /\ pc' = "done"
    /\ UNCHANGED <<session, tree, screen, written, now, cur, scenario, aux>>

\* Any other key.
FlatKeyOther ==
    /\ FlatKey("x")
    /\ UNCHANGED <<session, tree, written, errout>>
    /\ Redraw(need_redraw)

\* _kbhit() returns 0.
FlatNoKey ==
    /\ pc = "poll"
    /\ pc' = "draw"
    /\ UNCHANGED <<session, tree, screen, written, now, c, cur, scenario, aux>>

\* double nowT of draw_time_line().
NowT == IF running THEN elapsed + (((now - startCount) * 1000) \div freq) ELSE elapsed

\* The line draw_time_line() prints for the active split.
FlatActiveLine ==
    Line("node", splits[activeSplit].name, activeSplit + 1, 0,
         Placeholder, Placeholder, FlatFormatTime(NowT - splits[activeSplit].start))

\* draw_time_line(): the time line on row 2 and, if a split is active, its
\* line on row 3 + activeSplit.
DrawTimeLine ==
    screen' =
        IF activeSplit >= 0 /\ activeSplit < splitCount
          THEN [screen EXCEPT ![2] = Line("time", "", 0, 0, <<>>, <<>>, FlatFormatTime(NowT)),
                              ![3 + activeSplit] = FlatActiveLine]
          ELSE [screen EXCEPT ![2] = Line("time", "", 0, 0, <<>>, <<>>, FlatFormatTime(NowT))]

\* if (running) draw_time_line(); Sleep(50); and back to the top of the loop.
FlatDraw ==
    /\ pc = "draw"
    /\ IF running THEN DrawTimeLine ELSE UNCHANGED screen
    /\ pc' = "poll"
    /\ c' = ""
    /\ written' = <<>>
    /\ errout' = ""
    /\ UNCHANGED <<session, tree, now, cur, scenario, need_redraw, formatCall>>

FlatNext ==
    \/ Advance
    \/ FlatStartup
    \/ \E goal \in Goals : FlatKeyS(goal)
    \/ FlatKeyR
    \/ \E name \in Names : FlatKeyG(name)
    \/ FlatKeyH
    \/ \E ok \in BOOLEAN : FlatKeyT(ok)
    \/ FlatKeyQ
    \/ FlatKeyOther
    \/ FlatNoKey
    \/ FlatDraw

SpecFlat == FlatInit /\ [][FlatNext]_vars

(***************************************************************************)
(* format_time taken alone: a call of it on a duration drawn from a set of *)
(* whole-millisecond values around the boundaries of its fields, with the  *)
(* format_time of either source file.                                      *)
(***************************************************************************)

\* The hour counts of the durations formatted: below, at and above 99.
FmtHours == {0, 1, 99, 100, 123}

\* The durations formatted, in milliseconds.
FmtInputs ==
    {((h * 60 + m) * 60 + sec) * 1000 + ms :
        h \in FmtHours, m \in {0, 1, 59}, sec \in {0, 1, 59}, ms \in {0, 500, 999}}

\* Before the call: the argument is chosen, the buffer is empty.
FormatInit ==
    /\ running = FALSE
    /\ elapsed = 0
    /\ startCount = 0
    /\ splits = [i \in Slots |-> ZeroSplit]
    /\ splitCount = 0
    /\ activeSplit = -1
    /\ mainGoal = ""
    /\ screen = [r \in Rows |-> BlankLine]
    /\ written = <<>>
    /\ now = 0
    /\ c = ""
    /\ cur = -1
    /\ pc = "call"
    /\ scenario = 0
    /\ need_redraw = 0
    /\ errout = ""
    /\ fmt_t \in FmtInputs
    /\ fmt_buf = <<>>

\* format_time(t, buf) of the hierarchical timer is called.
FormatTimeCall ==
    /\ pc = "call"
    /\ fmt_buf' = FormatTime(fmt_t)
    /\ pc' = "part_000"
    /\ UNCHANGED <<session, tree, screen, written, now, c, cur, scenario,
                   need_redraw, errout, fmt_t>>

\* format_time(t, buf) of the flat timer is called.
FlatFormatTimeCall ==
    /\ pc = "call"
    /\ fmt_buf' = FlatFormatTime(fmt_t)
    /\ pc' = "stopwatch.c"
    /\ UNCHANGED <<session, tree, screen, written, now, c, cur, scenario,
                   need_redraw, errout, fmt_t>>

FormatNext ==
    \/ FormatTimeCall
    \/ FlatFormatTimeCall

SpecFormat == FormatInit /\ [][FormatNext]_vars

(***************************************************************************)
(* The properties of the specification, settled against the model.         *)
(***************************************************************************)

\* The nodes of the current session.
Nodes == 0 .. (splitCount - 1)

\* The open nodes: those whose end is the sentinel.
OpenNodes == {i \in Nodes : splits[i].end = -1}

\* currentElapsed() as the specification defines it.
CurrentElapsed ==
    IF running THEN elapsed + (((now - startCount) * 1000) \div freq) ELSE elapsed

\* The steps of the commands.
StepS == \E goal \in Goals : KeyS(goal)
StepG == \E name \in Names : KeyG(name)
StepN == \E name \in Names : KeyN(name)
StepT == \E ok \in BOOLEAN : KeyT(ok)

\* The chain of parents of node i, i included, following at most n links.
RECURSIVE Chain(_, _)
Chain(i, n) ==
    IF i < 0 \/ n = 0 THEN {} ELSE {i} \cup Chain(splits[i].parent, n - 1)

\* C1 as stated: at most one node is open at any time, and an open node is
\* the active node.
C1_AtMostOneOpen ==
    /\ Cardinality(OpenNodes) <= 1
    /\ \A i \in OpenNodes : i = activeSplit

\* C1 as amended: the active node, if any, is a node of the session and is
\* open, and so is every ancestor of it; nodes that are not active may be open.
C1_ActiveChainOpen ==
    activeSplit >= 0 =>
        /\ activeSplit \in Nodes
        /\ \A i \in Chain(activeSplit, MAX_SPLITS) : i \in OpenNodes

\* A child was opened under an open parent: two nodes are open, the child active.
C1_Witness ==
    /\ splitCount = 2
    /\ activeSplit = 1
    /\ splits[1].parent = 0
    /\ OpenNodes = {0, 1}

\* C2: closing the active node with 'h' sets its end to currentElapsed(), also
\* when the session was stopped while the node was still active.
C2_CloseSetsCurrentElapsed ==
    [][(KeyH /\ activeSplit >= 0) => splits'[activeSplit].end = CurrentElapsed]_vars

\* C3: with no start, stop or reset in between, the session-elapsed value the
\* program computes does not decrease while the session is running and does
\* not change while it is stopped.
C3_ElapsedMonotone ==
    [][(cur >= 0 /\ cur' >= 0) =>
          /\ (running /\ running') => cur' >= cur
          /\ (~running /\ ~running') => cur' = cur]_vars

\* C4: after start, open A at top level, open B under A, close, close, stop,
\* the tree has exactly the nodes A and B, B is the child of A one level
\* down, no node is active and both nodes are closed with end >= start.
C4_ScenarioTree ==
    scenario = 6 =>
        /\ splitCount = 2
        /\ splits[0].level = 0
        /\ splits[1].level = splits[0].level + 1
        /\ splits[1].parent = 0
        /\ activeSplit = -1
        /\ \A i \in {0, 1} : splits[i].end # -1 /\ splits[i].end >= splits[i].start

\* The scenario was completed, with the clock advancing during it.
C4_Witness ==
    /\ scenario = 6
    /\ splits[1].end > splits[0].start

\* C5: closing the active node leaves the cursor on that node's parent as it
\* was before; ascending moves the cursor to the parent too and leaves the
\* start and the end of every node as they were.
C5_CloseAndAscendCursor ==
    [][/\ (KeyH /\ activeSplit >= 0) => activeSplit' = splits[activeSplit].parent
       /\ (KeyU /\ activeSplit >= 0) =>
             /\ activeSplit' = splits[activeSplit].parent
             /\ \A i \in Slots : /\ splits'[i].start = splits[i].start
                                 /\ splits'[i].end = splits[i].end]_vars

\* The child was closed, which moved the cursor to its parent, and the parent
\* was then left with 'u': it is still open and no node is active.
C5_Witness ==
    /\ c = "u"
    /\ splitCount = 2
    /\ activeSplit = -1
    /\ splits[1].parent = 0
    /\ splits[1].end >= 0
    /\ splits[0].end = -1

\* C6: export writes to the sink only when the session is stopped and the
\* goal is not empty; while running or with an empty goal, 't' writes nothing
\* and changes neither the session nor the nodes nor the cursor.
C6_ExportGuard ==
    [][/\ written' # written => (StepT /\ ~running /\ mainGoal # "") \/ Draw
       /\ (StepT /\ (running \/ mainGoal = "")) =>
             written' = <<>> /\ UNCHANGED <<session, tree>>]_vars

\* 't' was pressed while a session with a goal and a node was running:
\* nothing was written.
C6_Witness ==
    /\ c = "t"
    /\ running
    /\ mainGoal # ""
    /\ splitCount > 0
    /\ written = <<>>

\* The closed nodes, and the place of a closed node among them by index.
ClosedNodes == {i \in Nodes : splits[i].end # -1}
Rank(i) == Cardinality({j \in ClosedNodes : j < i}) + 1

\* C7: a successful export writes one session entry and then one entry for
\* each node whose end is not the sentinel, in index order, with level + 2
\* stars each; an open node is not written.  After the scenario of C4 the
\* headings have 1, 2 and 3 stars.
C7_ExportEntries ==
    /\ [][(KeyT(TRUE) /\ ~running /\ mainGoal # "") =>
             /\ Len(written') = 1 + Cardinality(ClosedNodes)
             /\ written'[1] = [stars |-> 1, name |-> mainGoal]
             /\ \A i \in ClosedNodes :
                   /\ written'[1 + Rank(i)].stars = splits[i].level + 2
                   /\ written'[1 + Rank(i)].name = splits[i].name
                   /\ written'[1 + Rank(i)].start = FormatTime(splits[i].start)
                   /\ written'[1 + Rank(i)].end = FormatTime(splits[i].end)
                   /\ written'[1 + Rank(i)].dur =
                         FormatTime(splits[i].end - splits[i].start)]_vars
    /\ []((scenario = 7 /\ written # <<>>) =>
              [k \in 1 .. Len(written) |-> written[k].stars] = <<1, 2, 3>>)

\* A tree with one open and one closed node was exported: one nested entry.
C7_Witness ==
    /\ c = "t"
    /\ splitCount = 2
    /\ Cardinality(OpenNodes) = 1
    /\ Len(written) = 2

\* C8: starting a session is destructive from every state: afterwards the
\* session runs, the elapsed time is 0, there are no nodes and no node is active.
C8_StartClears ==
    [][(StepS /\ ~running) =>
          /\ running'
          /\ elapsed' = 0
          /\ CurrentElapsed' = 0
          /\ splitCount' = 0
          /\ activeSplit' = -1]_vars

\* A session was started over a stopped one that had elapsed time and an
\* open node (still in the array past splitCount).
C8_Witness ==
    /\ c = "s"
    /\ running
    /\ splitCount = 0
    /\ startCount > 0
    /\ splits[0].end = -1
    /\ splits[0].name # ""

\* C9: reset is unconditional: afterwards the session is stopped, the elapsed
\* time is 0, the goal is empty, there are no nodes and no node is active.
C9_ResetClears ==
    [][KeyR =>
          /\ ~running'
          /\ elapsed' = 0
          /\ mainGoal' = ""
          /\ splitCount' = 0
          /\ activeSplit' = -1]_vars

\* A session with an open node (still in the array past splitCount) was reset.
C9_Witness ==
    /\ c = "r"
    /\ ~running
    /\ mainGoal = ""
    /\ splitCount = 0
    /\ splits[0].end = -1
    /\ splits[0].name # ""

\* The parent of every node is none or an earlier node, and the level is one
\* more than the parent's, 0 without a parent.
TreeShape ==
    \A i \in Nodes :
        /\ splits[i].parent = -1 \/ (0 <= splits[i].parent /\ splits[i].parent < i)
        /\ splits[i].level =
              IF splits[i].parent >= 0 THEN splits[splits[i].parent].level + 1 ELSE 0

\* C10: every node has the shape above in every state, and a successful open
\* gives the new node the cursor before the call as parent, the sentinel as
\* end and the session-relative elapsed time as start, and makes it active.
C10_TreeShapeAndOpen ==
    /\ []TreeShape
    /\ [][((StepG \/ StepN) /\ splitCount' = splitCount + 1) =>
             /\ splits'[splitCount].parent = activeSplit
             /\ splits'[splitCount].end = -1
             /\ splits'[splitCount].start = CurrentElapsed
             /\ activeSplit' = splitCount]_vars

\* A child was opened under node 0 after the clock had advanced.
C10_Witness ==
    /\ c \in {"g", "n"}
    /\ splitCount = 2
    /\ activeSplit = 1
    /\ splits[1].parent = 0
    /\ splits[1].level = 1
    /\ splits[1].start > 0

StepH == KeyH
StepU == KeyU

\* C11: the node count never exceeds MAX_SPLITS, and an open command ('g' or
\* 'n') given while the array is full creates no node and leaves the nodes,
\* the cursor and the session fields as they were.
C11_CapacityBound ==
    /\ [](splitCount <= MAX_SPLITS)
    /\ [][((StepG \/ StepN) /\ splitCount = MAX_SPLITS)
            => UNCHANGED <<splits, splitCount, activeSplit, running, elapsed,
                           startCount, mainGoal>>]_vars

\* An open command was just turned down on a full array: a 'g' that opens a
\* node leaves the cursor on the last slot, and here it is not.
C11_Witness ==
    /\ c \in {"g", "n"}
    /\ pc = "draw"
    /\ running
    /\ splitCount = MAX_SPLITS
    /\ activeSplit # MAX_SPLITS - 1

\* C12: commands given in a state that does not admit them do nothing: close
\* and ascend with no active node, 'g' and 'n' while the session is not
\* running, 'n' with no active node; running, elapsed, goal, nodes and cursor
\* stay as they were.
C12_InvalidCommandsNoOp ==
    [][(\/ (StepH \/ StepU) /\ activeSplit = -1
        \/ (StepG \/ StepN) /\ ~running
        \/ StepN /\ activeSplit = -1)
         => UNCHANGED <<running, elapsed, startCount, mainGoal, splits,
                        splitCount, activeSplit>>]_vars

\* 'n' was just given in a running session with a node in the array and no
\* node active, and no node came of it.
C12_Witness ==
    /\ c = "n"
    /\ pc = "draw"
    /\ running
    /\ splitCount = 1
    /\ activeSplit = -1

\* 't' is given when the export is admitted (session stopped, goal not empty)
\* and the log file cannot be opened.
OpenFails ==
    /\ ~running
    /\ mainGoal # ""
    /\ KeyT(FALSE) \/ FlatKeyT(FALSE)

\* C13: when the log file cannot be opened the failure is reported by a
\* visible message (something is printed, on stderr or on the screen), nothing
\* is written, and running, elapsed, goal, nodes and cursor stay as they were.
C13_OpenFailureReported ==
    [][OpenFails
         => /\ errout' # "" \/ screen' # screen
            /\ written' = <<>>
            /\ UNCHANGED <<running, elapsed, startCount, mainGoal, splits,
                           splitCount, activeSplit>>]_vars

\* The nodes left behind open: open, and neither the active node nor one of
\* its ancestors.  A node gets there by 'u' only.
Abandoned ==
    {i \in Nodes : splits[i].end = -1 /\ i \notin Chain(activeSplit, MAX_SPLITS)}

\* The commands that clear the node array.
Clears == (StepS /\ ~running) \/ KeyR

\* C14: the node left by 'u' is left behind open, and a node left behind open
\* stays so: until a start or a reset clears the array no command gives it an
\* end or makes it the active node (or an ancestor of it) again, and an export
\* writes an entry for no open node.
C14_AscendedStaysOpen ==
    [][/\ (KeyU /\ activeSplit >= 0) => activeSplit \in Abandoned'
       /\ ~Clears => \A i \in Abandoned : /\ i \in Abandoned'
                                          /\ splits'[i].end = -1
                                          /\ activeSplit' # i
       /\ (KeyT(TRUE) /\ ~running /\ mainGoal # "") =>
             Len(written') = 1 + Cardinality(Nodes \ OpenNodes)]_vars

\* Node 0 was left with 'u' and stayed open while a second top-level node was
\* opened and closed after it.
C14_Witness ==
    /\ splitCount = 2
    /\ splits[0].end = -1
    /\ splits[1].parent = -1
    /\ splits[1].end >= 0
    /\ activeSplit = -1
    /\ c = "h"

\* C15: but for the start and the reset that clear the array, no command
\* changes the start of a node, the end of a node changes only from the
\* sentinel to a time, a closed node keeps its end, and the node count does not
\* go down; when it goes down it goes to zero.
C15_StartEndWriteOnce ==
    [][/\ ~Clears =>
             /\ splitCount' >= splitCount
             /\ \A i \in Nodes :
                   /\ splits'[i].start = splits[i].start
                   /\ splits'[i].end # splits[i].end =>
                         (splits[i].end = -1 /\ splits'[i].end >= 0)
       /\ splitCount' < splitCount => splitCount' = 0]_vars

\* Node 0 was closed, and a second node was opened and closed after that.
C15_Witness ==
    /\ c = "h"
    /\ splitCount = 2
    /\ splits[0].end >= 0
    /\ splits[1].end >= 0
    /\ splits[1].parent = -1
    /\ splits[1].start >= splits[0].end

\* C17: nodes are created only while the session is running, the starts are
\* in non-decreasing order along the array, and a closed node has its end at
\* or after its start.
C17_StartsOrdered ==
    /\ [](\A i \in Nodes :
             /\ (i + 1 \in Nodes) => splits[i].start <= splits[i + 1].start
             /\ splits[i].end # -1 => splits[i].end >= splits[i].start)
    /\ [][splitCount' > splitCount => (running /\ running')]_vars

\* Two nodes opened at different times, the first closed after time has passed.
C17_Witness ==
    /\ splitCount = 2
    /\ splits[0].start < splits[1].start
    /\ splits[0].end > splits[0].start
    /\ splits[1].end >= splits[1].start

\* C16: stopping the session clears running and sets elapsed to the elapsed
\* time accumulated before plus the time since the start of the current run;
\* the goal, the nodes and the cursor are as they were.
C16_StopFrame ==
    [][(StepS /\ running) =>
          /\ running' = FALSE
          /\ elapsed' = elapsed + (((now - startCount) * 1000) \div freq)
          /\ UNCHANGED <<mainGoal, startCount, splits, splitCount, activeSplit>>]_vars

\* The session was just stopped after time had passed, with a node active.
C16_Witness ==
    /\ c = "s"
    /\ pc = "draw"
    /\ ~running
    /\ elapsed > 0
    /\ activeSplit >= 0

\* The row on which the full redraw prints node i: the title, the goal, the
\* time and the count take rows 0 to 3, the nodes follow in index order.
StaticRow(i) == 4 + i

\* C18: the partial redraw of a running session changes two rows at most: the
\* time row, and, if a node is active, the row on which the full redraw put
\* that node; the count header and the rows of the other nodes are not touched.
C18_PartialRedrawRows ==
    [][((Draw \/ FlatDraw) /\ running) =>
          \A r \in Rows :
             screen'[r] # screen[r] =>
                (r = 2 \/ (activeSplit >= 0 /\ r = StaticRow(activeSplit)))]_vars

\* The key k was read and its handler run on this pass, in either timer.
Command(k) == pc = "poll" /\ pc' = "draw" /\ c' = k

\* The commands that change the structure: session start and stop, reset, and
\* an open command that creates a node.
Structural ==
    \/ Command("s")
    \/ Command("r")
    \/ (Command("g") \/ Command("n")) /\ splitCount' > splitCount

\* The frame of the full redraw of the timer the node array belongs to (the
\* nodes of the flat timer have no parent).
FullFrame(goal, count, nodes) ==
    IF "parent" \in DOMAIN nodes[0]
      THEN StaticFrame(goal, count, nodes)
      ELSE FlatStaticFrame(goal, count, nodes)

\* C19: every command that changes the structure (new node, reset, session
\* start, session stop) has the whole frame redrawn on the pass that applies
\* it, before the partial redraw of that pass: the handler leaves the screen
\* showing the full frame of the new state.  In the flat timer this is the
\* dirty flag set by the command and cleared by the redraw that follows, and
\* the flag is cleared by nothing else.
C19_StructuralCommandsRedraw ==
    [][/\ Structural =>
             /\ screen' = FullFrame(mainGoal', splitCount', splits')
             /\ need_redraw' = 0
       /\ (need_redraw = 1 /\ need_redraw' = 0) =>
             screen' = FullFrame(mainGoal', splitCount', splits')]_vars

\* HH:MM:SS.mmm for a duration of x milliseconds, as character codes: the
\* hours in decimal with two digits at least, minutes, seconds and the
\* millisecond remainder.
Expected(x) ==
    PadZero(x \div (3600 * 1000), 2) \o <<58>>
    \o PadZero((x \div (60 * 1000)) % 60, 2) \o <<58>>
    \o PadZero((x \div 1000) % 60, 2) \o <<46>>
    \o PadZero(x % 1000, 3)

\* C20: format_time gives HH:MM:SS.mmm for every duration of whole
\* milliseconds that is not negative, the hour field being the hour count in
\* decimal also above 99; 3661.0 gives 01:01:01.000, 0.0 gives 00:00:00.000
\* and 0.5 gives 00:00:00.500.
C20_FormatTime ==
    pc \in {"part_000", "stopwatch.c"} =>
        /\ fmt_buf = Expected(fmt_t)
        /\ fmt_t = 3661 * 1000 =>
              fmt_buf = <<48, 49, 58, 48, 49, 58, 48, 49, 46, 48, 48, 48>>
        /\ fmt_t = 0 =>
              fmt_buf = <<48, 48, 58, 48, 48, 58, 48, 48, 46, 48, 48, 48>>
        /\ fmt_t = 500 =>
              fmt_buf = <<48, 48, 58, 48, 48, 58, 48, 48, 46, 53, 48, 48>>

\* C21: the cursor is -1 or the index of a node of the session whose end is
\* the sentinel; so, but for the start and the reset that clear the array, no
\* command changes the end of a closed node, and the partial redraw of a
\* running session leaves the row of every closed node as the full redraw
\* printed it.
C21_CursorOnOpenNode ==
    /\ [](activeSplit = -1 \/
            (0 <= activeSplit /\ activeSplit < splitCount
               /\ splits[activeSplit].end = -1))
    /\ [][/\ ~Clears => \A i \in ClosedNodes : splits'[i].end = splits[i].end
          /\ (Draw /\ running) =>
                \A i \in ClosedNodes :
                   screen'[StaticRow(i)] = screen[StaticRow(i)]]_vars

====
